---- MODULE Spec2Model ----
(***************************************************************************)
(* put-cache-control: a pool of cpworker goroutines draining the names     *)
(* channel, each applying cp to one key, with the shared CopyContext       *)
(* counters, histograms and locks.  Model of src/put-cache-control.go      *)
(* (the urfave/cli variant, lines 1-495).                                  *)
(***************************************************************************)
EXTENDS Integers, Sequences, FiniteSets, TLC

\* ------------------------------------------------------------- bounds
NumKeys == 2          \* keys read from stdin in one run
MaxWorkers == 2       \* largest --parallelity explored

\* -------------------------------------------------- program constants
everySeconds == 10
NamesCap == 3000
MaxKeys == 1000
newvalue == "max-age=31536000,public"

Keys == 1..NumKeys
Workers == 1..MaxWorkers
\* --first-n: a cap of NumKeys - 1 or more is never exceeded before the
\* last key has been decided, so these values stand for every larger one.
MaxCap == NumKeys - 1
\* The readings of time.Since(context.start).Seconds() explored: a time
\* within the first status interval, one just after it, then one exactly
\* everySeconds later and one just after that.
Seconds ==
  {0, everySeconds + 1, 2 * everySeconds + 1, 2 * everySeconds + 2}

\* A *string that is nil: content types are the sequences of their
\* ";"-separated parts, so nil is the empty sequence.
NIL == <<>>
NilCC == "<nil>"
ContentTypes ==
  { <<"image/png">>, <<"image/jpeg">>, <<"application/pdf">>,
    <<"text/html", " charset=utf-8">> }
CacheControls == {NilCC, "no-cache", newvalue}
Statuses == {"E", ".", ",", "X", "j", "g", "P", "Y"}
Written == {"X", "j", "g", "P", "Y"}
TypeKeys == {ct[1] : ct \in ContentTypes}

\* *s3.HeadObjectOutput as cp uses it: a nil pointer, or the two fields.
NilOutput == [isnil |-> TRUE, cc |-> NilCC, ct |-> NIL]
EmptyOutput == [isnil |-> FALSE, cc |-> NilCC, ct |-> NIL]
Output(o) == [isnil |-> FALSE, cc |-> o.cc, ct |-> o.ct]

\* An object of a bucket, or its absence.
Absent == [exists |-> FALSE, cc |-> NilCC, ct |-> NIL]
Object(cc, ct) == [exists |-> TRUE, cc |-> cc, ct |-> ct]

VARIABLES
  \* CopyContext configuration (prepareContextFromCli) and the cli flags
  parallelity, noop, maxObjectsToCopy, exclude, from, target,
  \* how long the run lasts: the largest reading of the elapsed seconds
  maxSec,
  \* the object store: bucket name -> key -> object; objs0 is the store
  \* as the run found it
  objs, objs0,
  \* CopyContext progress
  copiedObjects, processedObjects, statusStats, typeStats,
  statsMutex, statusLineMutex, lastStatusShown, wg,
  \* main goroutine, the names channel, the process; input is what the
  \* producer has not read yet (the lines of stdin, or the keys of the
  \* bucket not yet listed), page the keys of the listed page not yet sent
  mainpc, input, page, names, closed, panic, clock,
  \* cpworker / cp locals, per worker
  pc, name, fromCT, tgt, status, contenttype, sec,
  \* the failure file error_keys.txt: name -> number of lines holding it
  errfile,
  \* history: what happened to each key in this run
  outcome, sinkRes, copyCalls, copyOK, dequeued, run, outcome1,
  \* history: the elapsed-time stamps of the status lines, in the order
  \* the throttle let them pass
  shown

cfgVars == <<parallelity, noop, maxObjectsToCopy, exclude, from, target,
             maxSec, objs0>>
ctxVars == <<copiedObjects, processedObjects, statusStats, typeStats,
             statsMutex, statusLineMutex, lastStatusShown, wg>>
mainVars == <<mainpc, input, names, closed, panic, clock>>
cpVars == <<pc, name, fromCT, tgt, status, contenttype, sec>>
histVars == <<outcome, sinkRes, copyCalls, copyOK, dequeued, run, outcome1>>
vars == <<cfgVars, page, shown, objs, ctxVars, mainVars, cpVars, errfile,
          histVars>>

\* ---------------------------------------------------------------- Init
\* A key that needs the write: a JPEG whose cache-control is not the
\* desired one.
PlainObject == Object("no-cache", <<"image/jpeg">>)

\* The buckets explored: every key holds PlainObject in the source bucket
\* (and nothing in a separate target bucket), except for one key, the probe,
\* which holds any of the objects below.  A probe is the name of the target
\* bucket ("src": --from-bucket omitted, the copy is in place), the probe's
\* source object and its object in a separate target bucket.
Probe(t, s, d) == [target |-> t, src |-> s, dst |-> d]
InPlaceProbes ==
  { Probe("src", Object(cc, ct), Absent) :
      cc \in {"no-cache", newvalue}, ct \in ContentTypes \cup {NIL} }
CrossProbes ==
  { Probe("dst", Object("no-cache", ct), d) :
      ct \in ContentTypes \cup {NIL},
      d \in { Absent, Object(newvalue, <<"image/jpeg">>),
              Object(NilCC, <<"image/jpeg">>), Object(newvalue, NIL) } }
\* With one worker every probe is tried, at every place of the input; with
\* a pool of workers all keys are plain and the copy is in place.
Probes(par) ==
  IF par = 1 THEN InPlaceProbes \cup CrossProbes
  ELSE { Probe("src", PlainObject, Absent) }
ProbeKeys(par) == IF par = 1 THEN Keys ELSE {1}

\* The regular expressions tried for --exclude-pictures, each as the set of
\* keys it matches: the default pattern, which matches nothing, or a pattern
\* that matches the probe's key.
ExcludePatterns(par, k) == IF par = 1 THEN { {}, {k} } ELSE { {} }

ZeroStats(S) == [s \in S |-> 0]

\* The progress fields of a fresh context, the empty names channel, the
\* lines of stdin, the locals of the workers and the history.
InitProgress ==
  /\ copiedObjects = 0
  /\ processedObjects = 0
  /\ statusStats = ZeroStats(Statuses)
  /\ typeStats = ZeroStats(TypeKeys)
  /\ statsMutex = 0
  /\ statusLineMutex = 0
  /\ lastStatusShown = 0
  /\ input = [i \in 1..NumKeys |-> i]
  /\ page = <<>>
  /\ names = <<>>
  /\ closed = FALSE
  /\ panic = ""
  /\ clock = 0
  /\ name = [w \in Workers |-> 0]
  /\ fromCT = [w \in Workers |-> NIL]
  /\ tgt = [w \in Workers |-> NilOutput]
  /\ status = [w \in Workers |-> ""]
  /\ contenttype = [w \in Workers |-> NIL]
  /\ sec = [w \in Workers |-> 0]
  /\ outcome = [k \in Keys |-> ""]
  /\ sinkRes = [k \in Keys |-> ""]
  /\ copyCalls = [k \in Keys |-> 0]
  /\ copyOK = 0
  /\ dequeued = 0
  /\ errfile = [k \in Keys |-> 0]
  /\ run = 1
  /\ outcome1 = [k \in Keys |-> ""]
  /\ shown = <<>>

\* The state main's Action has built when the workers have been started:
\* the context of prepareContextFromCli, wg.Add(parallelity), one cpworker
\* per unit of parallelity blocked on the empty names channel.
InitContext ==
  /\ InitProgress
  /\ wg = parallelity
  /\ mainpc = "list"
  /\ pc = [w \in Workers |-> IF w <= parallelity THEN "recv" ELSE "unused"]

Init ==
  /\ parallelity \in 1..MaxWorkers
  /\ noop \in BOOLEAN
  /\ maxObjectsToCopy \in 0..MaxCap
  /\ from = "src"
  /\ \E k \in ProbeKeys(parallelity), p \in Probes(parallelity) :
       /\ target = p.target
       /\ exclude \in ExcludePatterns(parallelity, k)
       /\ objs = [b \in {"src", "dst"} |-> [i \in Keys |->
                    IF b = "src" THEN (IF i = k THEN p.src ELSE PlainObject)
                    ELSE (IF i = k THEN p.dst ELSE Absent)]]
  /\ objs0 = objs
  /\ maxSec = everySeconds + 1
  /\ InitContext

\* --------------------------------------------------------- pure parts
\* Mutant: the picture list without image/png.
IsPicture_jpegOnly(ct) == ct \in { <<"image/jpeg">> }

\* Mutant: the cap compared with >= instead of >.
CapExceeded_ge(copied, max) == copied >= max

\* IsPicture, for a content type that is not nil.
IsPicture(ct) == ct \in { <<"image/jpeg">>, <<"image/png">> }

\* Mutant: the last else branch does not set the status.
WrittenStatus_unset(ct) ==
  IF ct = NIL THEN "X"
  ELSE IF ct = <<"image/png">> THEN "g"
  ELSE IF ct = <<"image/jpeg">> THEN "j"
  ELSE IF ct = <<"application/pdf">> THEN "P"
  ELSE ""

\* The status of the write path, from the source's content type.
WrittenStatus(ct) ==
  IF ct = NIL THEN "X"
  ELSE IF ct = <<"image/png">> THEN "g"
  ELSE IF ct = <<"image/jpeg">> THEN "j"
  ELSE IF ct = <<"application/pdf">> THEN "P"
  ELSE "Y"

\* The content type the write carries.
WrittenType(ct) == IF ct = NIL THEN <<"image/png">> ELSE ct

\* target != nil && target.CacheControl != nil &&
\* *target.CacheControl == context.newvalue && target.ContentType != nil
AlreadyCorrect(t) ==
  /\ ~t.isnil
  /\ t.cc # NilCC
  /\ t.cc = newvalue
  /\ t.ct # NIL

\* Mutant: the cap takes effect one copy later.
CapExceeded_late(copied, max) == copied > max + 1

\* context.copiedObjects > context.maxObjectsToCopy, on the value read.
CapExceeded(copied, max) == copied > max

\* Mutant: the cap checked before the already-correct check.
Decision_capFirst(k, ct, t, copied) ==
  IF k \in exclude /\ ct = NIL THEN "panic"
  ELSE IF k \in exclude /\ ct \in { <<"image/jpeg">>, <<"image/png">> } THEN "E"
  ELSE IF copied > maxObjectsToCopy THEN ","
  ELSE IF ~t.isnil /\ t.cc = newvalue /\ t.ct # NIL THEN "."
  ELSE "write"

\* The if / else-if chain of cp: "panic" is IsPicture's dereference of a
\* nil ContentType, "write" the final else branch.
Decision(k, ct, t, copied) ==
  IF k \in exclude /\ ct = NIL THEN "panic"
  ELSE IF k \in exclude /\ IsPicture(ct) THEN "E"
  ELSE IF AlreadyCorrect(t) THEN "."
  ELSE IF CapExceeded(copied, maxObjectsToCopy) THEN ","
  ELSE "write"

\* strings.Split(*contenttype, ";")[0]
TypeKey(ct) == ct[1]

Inc(f, x) == [f EXCEPT ![x] = @ + 1]

\* ------------------------------------------------------------ cpworker
\* A panic in any goroutine ends the process: nothing runs after it.
Running == panic = ""

\* cp returns nil: back to the receive of cpworker's loop.
ReturnNil(w) ==
  /\ pc' = [pc EXCEPT ![w] = "recv"]
  /\ name' = [name EXCEPT ![w] = 0]
  /\ sec' = [sec EXCEPT ![w] = 0]

\* cp returns an error: cpworker goes on to the failure file.
ReturnErr(w) ==
  /\ pc' = [pc EXCEPT ![w] = "sink"]
  /\ outcome' = [outcome EXCEPT ![name[w]] = "err"]
  /\ fromCT' = [fromCT EXCEPT ![w] = NIL]
  /\ tgt' = [tgt EXCEPT ![w] = NilOutput]
  /\ status' = [status EXCEPT ![w] = ""]
  /\ contenttype' = [contenttype EXCEPT ![w] = NIL]

\* Mutant: the received name stays at the head of the channel.
RecvName_peek(w) ==
  /\ Running /\ pc[w] = "recv"
  /\ names # <<>>
  /\ name' = [name EXCEPT ![w] = Head(names)]
  /\ dequeued' = dequeued + 1
  /\ pc' = [pc EXCEPT ![w] = "heads"]
  /\ UNCHANGED <<cfgVars, page, shown, objs, ctxVars, mainVars, fromCT, tgt, status,
                 contenttype, sec, errfile,
                 outcome, sinkRes, copyCalls, copyOK, run, outcome1>>

\* name, more := <-names with more = true; cp(context, name) is called.
RecvName(w) ==
  /\ Running /\ pc[w] = "recv"
  /\ names # <<>>
  /\ name' = [name EXCEPT ![w] = Head(names)]
  /\ names' = Tail(names)
  /\ dequeued' = dequeued + 1
  /\ pc' = [pc EXCEPT ![w] = "heads"]
  /\ UNCHANGED <<cfgVars, page, shown, objs, ctxVars, mainpc, input, closed, panic, clock,
                 fromCT, tgt, status, contenttype, sec, errfile,
                 outcome, sinkRes, copyCalls, copyOK, run, outcome1>>

\* name, more := <-names with more = false: wg.Done() and return
RecvClosed(w) ==
  /\ Running /\ pc[w] = "recv"
  /\ names = <<>> /\ closed
  /\ wg' = wg - 1
  /\ pc' = [pc EXCEPT ![w] = "exited"]
  /\ UNCHANGED <<cfgVars, page, shown, objs, copiedObjects, processedObjects, statusStats,
                 typeStats, statsMutex, statusLineMutex, lastStatusShown,
                 mainVars, name, fromCT, tgt, status, contenttype, sec,
                 errfile, histVars>>

\* cp returned an error.  os.OpenFile(error_keys.txt, O_APPEND|O_WRONLY|
\* O_CREATE) fails ("noopen"): panic(err), which ends the process.  Else
\* fmt.Fprintln(f, name) and f.Close(), whose results are not looked at: the
\* line is appended ("written") or it is not ("nowrite"), and the loop goes on.
SinkResults == {"noopen", "written", "nowrite"}
Sink(w) ==
  /\ Running /\ pc[w] = "sink"
  /\ \E r \in SinkResults :
       IF r = "noopen"
       THEN /\ panic' = "OpenFile"
            /\ sinkRes' = [sinkRes EXCEPT ![name[w]] = r]
            /\ UNCHANGED <<pc, name, errfile>>
       ELSE /\ errfile' = IF r = "written" THEN Inc(errfile, name[w]) ELSE errfile
            /\ sinkRes' = [sinkRes EXCEPT ![name[w]] = r]
            /\ pc' = [pc EXCEPT ![w] = "recv"]
            /\ name' = [name EXCEPT ![w] = 0]
            /\ UNCHANGED panic
  /\ UNCHANGED <<cfgVars, page, shown, objs, ctxVars, mainpc, input, names, closed, clock,
                 fromCT, tgt, status, contenttype, sec,
                 outcome, copyCalls, copyOK, dequeued, run, outcome1>>

\* ------------------------------------------------------------------ cp
\* What HeadObject(context.target, key) leaves in target: the store answers
\* ("ok": the object, or nil on the awserr code NotFound), or the call fails
\* with another awserr code ("awserr": logged, and cp goes on with the empty
\* output the SDK returned beside the error).
TargetOutput(r, k) ==
  IF r = "awserr" THEN EmptyOutput
  ELSE IF objs[target][k].exists THEN Output(objs[target][k])
  ELSE NilOutput

\* --target-bucket was not given: prepareContextFromCli returned the zero
\* CopyContext beside its error, so context.s3svc is a nil *s3.S3.
NoContext == target = ""

\* from, fromErr := HeadObject(context.from, key): an error is returned.
\* On the nil context.s3svc the call dereferences nil and panics.
\* target, targetErr := HeadObject(context.target, key): an error that is
\* no awserr.Error ("error") is returned.
HeadResults == {"ok", "awserr", "error"}
Heads(w) ==
  /\ Running /\ pc[w] = "heads"
  /\ \E fromOK \in BOOLEAN, r \in HeadResults :
       IF NoContext
       THEN /\ panic' = "s3svc"
            /\ UNCHANGED <<pc, fromCT, contenttype, tgt, status, outcome>>
       ELSE IF ~fromOK \/ r = "error"
       THEN /\ ReturnErr(w)
            /\ UNCHANGED panic
       ELSE /\ UNCHANGED panic
             /\ fromCT' = [fromCT EXCEPT ![w] = objs[from][name[w]].ct]
            /\ contenttype' = [contenttype EXCEPT ![w] = objs[from][name[w]].ct]
            /\ tgt' = [tgt EXCEPT ![w] = TargetOutput(r, name[w])]
            /\ pc' = [pc EXCEPT ![w] = "decide"]
            /\ UNCHANGED <<status, outcome>>
  /\ UNCHANGED <<cfgVars, page, shown, objs, ctxVars, mainpc, input, names, closed, clock,
                 name, sec, errfile,
                 sinkRes, copyCalls, copyOK, dequeued, run, outcome1>>

\* The status chain.  context.copiedObjects is read without synchronisation:
\* the load sees the counter as it is at this step.  E, "." and "," are
\* printed and cp goes to the histograms; the write path sets the status
\* and the content type and builds the CopyObjectInput.
Decide(w) ==
  /\ Running /\ pc[w] = "decide"
  /\ LET d == Decision(name[w], fromCT[w], tgt[w], copiedObjects) IN
       IF d = "panic"
       THEN /\ panic' = "IsPicture"
            /\ UNCHANGED <<pc, status, contenttype, outcome>>
       ELSE IF d = "write"
       THEN /\ status' = [status EXCEPT ![w] = WrittenStatus(fromCT[w])]
            /\ contenttype' = [contenttype EXCEPT ![w] = WrittenType(fromCT[w])]
            /\ pc' = [pc EXCEPT ![w] = IF noop THEN "addCopied" ELSE "copy"]
            /\ UNCHANGED <<panic, outcome>>
       ELSE /\ status' = [status EXCEPT ![w] = d]
            /\ outcome' = [outcome EXCEPT ![name[w]] = d]
            /\ pc' = [pc EXCEPT ![w] = "lockStats"]
            /\ UNCHANGED <<panic, contenttype>>
  /\ UNCHANGED <<cfgVars, page, shown, objs, ctxVars, mainpc, input, names, closed, clock,
                 name, fromCT, tgt, sec, errfile,
                 sinkRes, copyCalls, copyOK, dequeued, run, outcome1>>

\* Mutant: the error of CopyObject is not looked at.
CopyObject_ignoresError(w) ==
  /\ Running /\ pc[w] = "copy"
  /\ copyCalls' = Inc(copyCalls, name[w])
  /\ \E ok \in BOOLEAN :
       /\ objs' = IF ok THEN [objs EXCEPT ![target][name[w]] =
                                Object(newvalue, contenttype[w])]
                  ELSE objs
       /\ copyOK' = IF ok THEN copyOK + 1 ELSE copyOK
  /\ pc' = [pc EXCEPT ![w] = "addCopied"]
  /\ UNCHANGED <<cfgVars, page, shown, ctxVars, mainVars, name, fromCT, tgt, status,
                 contenttype, sec, errfile, outcome, sinkRes, dequeued, run,
                 outcome1>>

\* Mutant: the CopyObjectInput carries no CacheControl.
CopyObject_noCacheControl(w) ==
  /\ Running /\ pc[w] = "copy"
  /\ copyCalls' = Inc(copyCalls, name[w])
  /\ objs' = [objs EXCEPT ![target][name[w]] = Object(NilCC, contenttype[w])]
  /\ copyOK' = copyOK + 1
  /\ pc' = [pc EXCEPT ![w] = "addCopied"]
  /\ UNCHANGED <<cfgVars, page, shown, ctxVars, mainVars, name, fromCT, tgt, status,
                 contenttype, sec, errfile, outcome, sinkRes, dequeued, run,
                 outcome1>>

\* context.s3svc.CopyObject(&inp) with MetadataDirective REPLACE: the target
\* object gets the cache-control and the content type of the input.  An
\* error is returned.
CopyObject(w) ==
  /\ Running /\ pc[w] = "copy"
  /\ copyCalls' = Inc(copyCalls, name[w])
  /\ \E ok \in BOOLEAN :
       IF ok
       THEN /\ objs' = [objs EXCEPT ![target][name[w]] =
                          Object(newvalue, contenttype[w])]
            /\ copyOK' = copyOK + 1
            /\ pc' = [pc EXCEPT ![w] = "addCopied"]
            /\ UNCHANGED <<fromCT, tgt, status, contenttype, outcome>>
       ELSE /\ ReturnErr(w)
            /\ UNCHANGED <<objs, copyOK>>
  /\ UNCHANGED <<cfgVars, page, shown, ctxVars, mainVars, name, sec, errfile,
                 sinkRes, dequeued, run, outcome1>>

\* Mutant: the counter is left alone in a --noop run.
AddCopied_notInNoop(w) ==
  /\ Running /\ pc[w] = "addCopied"
  /\ copiedObjects' = IF noop THEN copiedObjects ELSE copiedObjects + 1
  /\ outcome' = [outcome EXCEPT ![name[w]] = status[w]]
  /\ pc' = [pc EXCEPT ![w] = "lockStats"]
  /\ UNCHANGED <<cfgVars, page, shown, objs, processedObjects, statusStats, typeStats,
                 statsMutex, statusLineMutex, lastStatusShown, wg, mainVars,
                 name, fromCT, tgt, status, contenttype, sec, errfile,
                 sinkRes, copyCalls, copyOK, dequeued, run, outcome1>>

\* atomic.AddInt64(&context.copiedObjects, 1); fmt.Print(status)
AddCopied(w) ==
  /\ Running /\ pc[w] = "addCopied"
  /\ copiedObjects' = copiedObjects + 1
  /\ outcome' = [outcome EXCEPT ![name[w]] = status[w]]
  /\ pc' = [pc EXCEPT ![w] = "lockStats"]
  /\ UNCHANGED <<cfgVars, page, shown, objs, processedObjects, statusStats, typeStats,
                 statsMutex, statusLineMutex, lastStatusShown, wg, mainVars,
                 name, fromCT, tgt, status, contenttype, sec, errfile,
                 sinkRes, copyCalls, copyOK, dequeued, run, outcome1>>

\* Mutant: the histogram entry is set to 1 instead of incremented.
UpdateStats_assigns(w) ==
  /\ Running /\ pc[w] = "stats"
  /\ contenttype[w] # NIL
  /\ statusStats' = [statusStats EXCEPT ![status[w]] = 1]
  /\ typeStats' = Inc(typeStats, TypeKey(contenttype[w]))
  /\ statsMutex' = 0
  /\ pc' = [pc EXCEPT ![w] = "addProcessed"]
  /\ fromCT' = [fromCT EXCEPT ![w] = NIL]
  /\ tgt' = [tgt EXCEPT ![w] = NilOutput]
  /\ status' = [status EXCEPT ![w] = ""]
  /\ contenttype' = [contenttype EXCEPT ![w] = NIL]
  /\ UNCHANGED <<cfgVars, page, shown, objs, copiedObjects, processedObjects,
                 statusLineMutex, lastStatusShown, wg, mainVars, name, sec,
                 errfile, histVars>>

\* Mutant: a key that ended CapReached is not counted as processed.
AddProcessed_notCapped(w) ==
  /\ Running /\ pc[w] = "addProcessed"
  /\ processedObjects' = processedObjects + (IF outcome[name[w]] = "," THEN 0 ELSE 1)
  /\ \E t \in Seconds :
       /\ clock <= t /\ t <= maxSec
       /\ clock' = t
       /\ sec' = [sec EXCEPT ![w] = t]
  /\ pc' = [pc EXCEPT ![w] = "lockStatus"]
  /\ UNCHANGED <<cfgVars, page, shown, objs, copiedObjects, statusStats, typeStats,
                 statsMutex, statusLineMutex, lastStatusShown, wg, mainpc,
                 input, names, closed, panic, name, fromCT, tgt, status,
                 contenttype, errfile, histVars>>

\* context.statsMutex.Lock()
LockStats(w) ==
  /\ Running /\ pc[w] = "lockStats"
  /\ statsMutex = 0
  /\ statsMutex' = w
  /\ pc' = [pc EXCEPT ![w] = "stats"]
  /\ UNCHANGED <<cfgVars, page, shown, objs, copiedObjects, processedObjects, statusStats,
                 typeStats, statusLineMutex, lastStatusShown, wg, mainVars,
                 name, fromCT, tgt, status, contenttype, sec, errfile,
                 histVars>>

\* statusStats[status] += 1; ctype := Split(*contenttype, ";")[0];
\* typeStats[ctype] += 1; statsMutex.Unlock().  *contenttype panics on a
\* nil content type, after the first increment and with the lock held.
UpdateStats(w) ==
  /\ Running /\ pc[w] = "stats"
  /\ statusStats' = Inc(statusStats, status[w])
  /\ IF contenttype[w] = NIL
     THEN /\ panic' = "contenttype"
          /\ UNCHANGED <<typeStats, statsMutex, pc, fromCT, tgt, status, contenttype>>
     ELSE /\ typeStats' = Inc(typeStats, TypeKey(contenttype[w]))
          /\ statsMutex' = 0
          /\ pc' = [pc EXCEPT ![w] = "addProcessed"]
          /\ fromCT' = [fromCT EXCEPT ![w] = NIL]
          /\ tgt' = [tgt EXCEPT ![w] = NilOutput]
          /\ status' = [status EXCEPT ![w] = ""]
          /\ contenttype' = [contenttype EXCEPT ![w] = NIL]
          /\ UNCHANGED panic
  /\ UNCHANGED <<cfgVars, page, shown, objs, copiedObjects, processedObjects,
                 statusLineMutex, lastStatusShown, wg, mainpc, input, names,
                 closed, clock, name, sec, errfile, histVars>>

\* atomic.AddInt64(&context.processedObjects, 1);
\* sec := time.Since(context.start).Seconds()
AddProcessed(w) ==
  /\ Running /\ pc[w] = "addProcessed"
  /\ processedObjects' = processedObjects + 1
  /\ \E t \in Seconds :
       /\ clock <= t /\ t <= maxSec
       /\ clock' = t
       /\ sec' = [sec EXCEPT ![w] = t]
  /\ pc' = [pc EXCEPT ![w] = "lockStatus"]
  /\ UNCHANGED <<cfgVars, page, shown, objs, copiedObjects, statusStats, typeStats,
                 statsMutex, statusLineMutex, lastStatusShown, wg, mainpc,
                 input, names, closed, panic, name, fromCT, tgt, status,
                 contenttype, errfile, histVars>>

\* context.statusLineMutex.Lock()
LockStatusLine(w) ==
  /\ Running /\ pc[w] = "lockStatus"
  /\ statusLineMutex = 0
  /\ statusLineMutex' = w
  /\ pc' = [pc EXCEPT ![w] = "throttle"]
  /\ UNCHANGED <<cfgVars, page, shown, objs, copiedObjects, processedObjects, statusStats,
                 typeStats, statsMutex, lastStatusShown, wg, mainVars,
                 name, fromCT, tgt, status, contenttype, sec, errfile,
                 histVars>>

\* Mutant: the throttle compares with <=.
ShowDue_le(last, s) == last <= s - everySeconds

\* context.lastStatusShown < sec-everySeconds
ShowDue(last, s) == last < s - everySeconds

\* if lastStatusShown < sec-everySeconds { show = true; lastStatusShown = sec }
\* statusLineMutex.Unlock(); without show cp returns nil.
Throttle(w) ==
  /\ Running /\ pc[w] = "throttle"
  /\ statusLineMutex' = 0
  /\ IF ShowDue(lastStatusShown, sec[w])
     THEN /\ lastStatusShown' = sec[w]
          /\ shown' = Append(shown, sec[w])
          /\ pc' = [pc EXCEPT ![w] = "show"]
          /\ UNCHANGED <<name, sec>>
     ELSE /\ ReturnNil(w)
          /\ UNCHANGED <<lastStatusShown, shown>>
  /\ UNCHANGED <<cfgVars, page, objs, copiedObjects, processedObjects, statusStats,
                 typeStats, statsMutex, wg, mainVars, fromCT, tgt, status,
                 contenttype, errfile, histVars>>

\* if show { statsMutex.Lock(); the totals and both histograms are printed;
\* statsMutex.Unlock() }; return nil.  The section changes nothing, so it is
\* one step, taken when the lock is free.
ShowStatus(w) ==
  /\ Running /\ pc[w] = "show"
  /\ statsMutex = 0
  /\ ReturnNil(w)
  /\ UNCHANGED <<cfgVars, page, shown, objs, ctxVars, mainVars, fromCT, tgt, status,
                 contenttype, errfile, histVars>>

\* ---------------------------------------------------------------- main
\* listObjectsFromStdin: names <- input.Text(), blocking on a full channel.
SendName ==
  /\ Running /\ mainpc = "list"
  /\ input # <<>>
  /\ Len(names) < NamesCap
  /\ names' = Append(names, Head(input))
  /\ input' = Tail(input)
  /\ UNCHANGED <<cfgVars, page, shown, objs, ctxVars, mainpc, closed, panic, clock,
                 cpVars, errfile, histVars>>

\* input.Scan() returns false, or listObjectsToCopy has returned;
\* close(names)
CloseNames ==
  /\ Running
  /\ \/ mainpc = "list" /\ input = <<>>
     \/ mainpc = "listed"
  /\ closed' = TRUE
  /\ mainpc' = "wait"
  /\ UNCHANGED <<cfgVars, page, shown, objs, ctxVars, input, names, panic, clock,
                 cpVars, errfile, histVars>>

\* Mutant: main does not wait for the workers.
WaitDone_noWait ==
  /\ Running /\ mainpc = "wait"
  /\ mainpc' = "done"
  /\ UNCHANGED <<cfgVars, page, shown, objs, ctxVars, input, names, closed, panic, clock,
                 cpVars, errfile, histVars>>

\* context.wg.Wait() returns; "Done." is printed.
WaitDone ==
  /\ Running /\ mainpc = "wait"
  /\ wg = 0
  /\ mainpc' = "done"
  /\ UNCHANGED <<cfgVars, page, shown, objs, ctxVars, input, names, closed, panic, clock,
                 cpVars, errfile, histVars>>

Worker(w) ==
  \/ RecvName(w) \/ RecvClosed(w) \/ Sink(w)
  \/ Heads(w) \/ Decide(w) \/ CopyObject(w)
  \/ AddCopied(w) \/ LockStats(w) \/ UpdateStats(w) \/ AddProcessed(w)
  \/ LockStatusLine(w) \/ Throttle(w) \/ ShowStatus(w)

Next ==
  \/ SendName
  \/ CloseNames
  \/ WaitDone
  \/ \E w \in Workers : Worker(w)

Spec == Init /\ [][Next]_vars

\* The runs of one worker, which go through every object of the probe
\* family, and the runs of a pool of workers.
InitOne == Init /\ parallelity = 1
SpecOne == InitOne /\ [][Next]_vars
InitPool == Init /\ parallelity > 1
SpecPool == InitPool /\ [][Next]_vars

\* The runs that last into the third status interval: all keys plain, the
\* copy in place, no --noop, a cap that is not reached before the last key.
InitLong ==
  /\ parallelity \in 1..MaxWorkers
  /\ noop = FALSE
  /\ maxObjectsToCopy = MaxCap
  /\ from = "src" /\ target = "src"
  /\ exclude = {}
  /\ objs = [b \in {"src", "dst"} |-> [i \in Keys |->
               IF b = "src" THEN PlainObject ELSE Absent]]
  /\ objs0 = objs
  /\ maxSec = 2 * everySeconds + 2
  /\ InitContext
SpecLong == InitLong /\ [][Next]_vars

\* The runs over plain keys, in place, with every cap and with and without
\* --noop: every key takes the write path unless the cap stops it.
InitCap ==
  /\ parallelity \in 1..MaxWorkers
  /\ noop \in BOOLEAN
  /\ maxObjectsToCopy \in 0..MaxCap
  /\ from = "src" /\ target = "src"
  /\ exclude = {}
  /\ objs = [b \in {"src", "dst"} |-> [i \in Keys |->
               IF b = "src" THEN PlainObject ELSE Absent]]
  /\ objs0 = objs
  /\ maxSec = everySeconds + 1
  /\ InitContext
SpecCap == InitCap /\ [][Next]_vars

\* ---------------------------------------------- listObjectsToCopy
\* Mutant: the page callback compares with <=.
BelowCap_le(copied, max) == copied <= max

\* context.copiedObjects < context.maxObjectsToCopy, on the value read.
BelowCap(copied, max) == copied < max

\* ListObjectsV2Pages requests the next page: the store answers with the
\* next keys of the bucket, at most MaxKeys of them (none only when the
\* bucket has no further key), or the request fails, which ends the
\* enumeration: the error is written to stderr and listObjectsToCopy returns.
ListPage ==
  /\ Running /\ mainpc = "page"
  /\ \E ok \in BOOLEAN :
       IF ok
       THEN /\ \E n \in 0..Len(input) :
                 /\ n <= MaxKeys
                 /\ n = 0 <=> input = <<>>
                 /\ page' = SubSeq(input, 1, n)
                 /\ input' = SubSeq(input, n + 1, Len(input))
            /\ mainpc' = "send"
       ELSE /\ mainpc' = "listed"
            /\ UNCHANGED <<page, input>>
  /\ UNCHANGED <<cfgVars, shown, objs, ctxVars, names, closed, panic, clock,
                 cpVars, errfile, histVars>>

\* for _, item := range page.Contents { names <- *item.Key }, blocking on
\* a full channel.
SendKey ==
  /\ Running /\ mainpc = "send"
  /\ page # <<>>
  /\ Len(names) < NamesCap
  /\ names' = Append(names, Head(page))
  /\ page' = Tail(page)
  /\ UNCHANGED <<cfgVars, shown, objs, ctxVars, mainpc, input, closed, panic, clock,
                 cpVars, errfile, histVars>>

\* The callback returns context.copiedObjects < context.maxObjectsToCopy,
\* read without synchronisation: the load sees the counter as it is at this
\* step.  On true ListObjectsV2Pages goes on if the bucket has a further
\* page; else it returns, and so does listObjectsToCopy.
PageDone ==
  /\ Running /\ mainpc = "send"
  /\ page = <<>>
  /\ mainpc' = IF BelowCap(copiedObjects, maxObjectsToCopy) /\ input # <<>>
               THEN "page" ELSE "listed"
  /\ UNCHANGED <<cfgVars, page, shown, objs, ctxVars, input, names, closed, panic,
                 clock, cpVars, errfile, histVars>>

\* A run that enumerates the bucket (no --stdin, no --noop), in place, all
\* keys plain: the workers are started and listObjectsToCopy is about to
\* request its first page.
InitList ==
  /\ parallelity \in 1..MaxWorkers
  /\ noop = FALSE
  /\ maxObjectsToCopy \in 0..NumKeys
  /\ from = "src" /\ target = "src"
  /\ exclude = {}
  /\ objs = [b \in {"src", "dst"} |-> [i \in Keys |->
               IF b = "src" THEN PlainObject ELSE Absent]]
  /\ objs0 = objs
  /\ maxSec = everySeconds + 1
  /\ InitProgress
  /\ wg = parallelity
  /\ mainpc = "page"
  /\ pc = [w \in Workers |-> IF w <= parallelity THEN "recv" ELSE "unused"]

NextList ==
  \/ ListPage \/ SendKey \/ PageDone
  \/ CloseNames \/ WaitDone
  \/ \E w \in Workers : Worker(w)
SpecList == InitList /\ [][NextList]_vars

\* The Go scheduler lets every goroutine that can run take its next step:
\* main, and each cpworker.
Fairness ==
  /\ WF_vars(SendName \/ CloseNames \/ WaitDone)
  /\ \A w \in Workers : WF_vars(Worker(w))
SpecFair == Init /\ [][Next]_vars /\ Fairness

\* ------------------------------------------------ main, from its start
\* context, _ := prepareContextFromCli(c): the error it returns when
\* --target-bucket is missing is discarded, and main goes on with the zero
\* CopyContext.
PrepareContext ==
  /\ Running /\ mainpc = "prepare"
  /\ mainpc' = "spawn"
  /\ UNCHANGED <<cfgVars, page, shown, objs, ctxVars, input, names, closed, panic, clock,
                 cpVars, errfile, histVars>>

\* context.wg.Add(parallelity); go cpworker(&context, names), parallelity
\* times.
StartWorkers ==
  /\ Running /\ mainpc = "spawn"
  /\ wg' = wg + parallelity
  /\ pc' = [w \in Workers |-> IF w <= parallelity THEN "recv" ELSE "unused"]
  /\ mainpc' = "size"
  /\ UNCHANGED <<cfgVars, page, shown, objs, copiedObjects, processedObjects, statusStats,
                 typeStats, statsMutex, statusLineMutex, lastStatusShown,
                 input, names, closed, panic, clock, name, fromCT, tgt, status,
                 contenttype, sec, errfile, histVars>>

\* getExpectedSize(&context): getBucketSize issues GetMetricStatistics for
\* context.from; whatever it returns, main goes on to the listing.
GetExpectedSize ==
  /\ Running /\ mainpc = "size"
  /\ mainpc' = "list"
  /\ UNCHANGED <<cfgVars, page, shown, objs, ctxVars, input, names, closed, panic, clock,
                 cpVars, errfile, histVars>>

\* The flags of a run whose keys are all plain, or a command line without
\* --target-bucket (the zero CopyContext: no buckets, no cap, --noop off);
\* nothing of main's Action has run.
InitSetup ==
  /\ parallelity \in 1..MaxWorkers
  /\ \/ /\ noop \in BOOLEAN
        /\ maxObjectsToCopy \in 0..MaxCap
        /\ from = "src" /\ target = "src"
     \/ /\ noop = FALSE
        /\ maxObjectsToCopy = 0
        /\ from = "" /\ target = ""
  /\ exclude = {}
  /\ objs = [b \in {"src", "dst"} |-> [i \in Keys |->
               IF b = "src" THEN PlainObject ELSE Absent]]
  /\ objs0 = objs
  /\ maxSec = everySeconds + 1
  /\ InitProgress
  /\ wg = 0
  /\ mainpc = "prepare"
  /\ pc = [w \in Workers |-> "unused"]

NextSetup == PrepareContext \/ StartWorkers \/ GetExpectedSize \/ Next
SpecSetup == InitSetup /\ [][NextSetup]_vars

\* --------------------------------------------------------- a second run
\* After a run in which no key failed, the tool is run again with the same
\* flags on the same buckets: main builds a fresh context and starts the
\* workers again; the buckets and error_keys.txt are as the first run left
\* them.
Restart ==
  /\ Running /\ mainpc = "done" /\ run = 1
  /\ \A k \in Keys : outcome[k] # "err"
  /\ run' = 2
  /\ outcome1' = outcome
  /\ copiedObjects' = 0
  /\ processedObjects' = 0
  /\ statusStats' = ZeroStats(Statuses)
  /\ typeStats' = ZeroStats(TypeKeys)
  /\ lastStatusShown' = 0
  /\ wg' = parallelity
  /\ mainpc' = "list"
  /\ input' = [i \in 1..NumKeys |-> i]
  /\ closed' = FALSE
  /\ clock' = 0
  /\ pc' = [w \in Workers |-> IF w <= parallelity THEN "recv" ELSE "unused"]
  /\ outcome' = [k \in Keys |-> ""]
  /\ sinkRes' = [k \in Keys |-> ""]
  /\ copyCalls' = [k \in Keys |-> 0]
  /\ copyOK' = 0
  /\ dequeued' = 0
  /\ shown' = <<>>
  /\ UNCHANGED <<cfgVars, page, objs, statsMutex, statusLineMutex, names, panic,
                 name, fromCT, tgt, status, contenttype, sec, errfile>>

\* Two runs in sequence, the write enabled (--noop off), one worker
\* (--parallelity 1), over every object of the probe family.
InitTwice == Init /\ ~noop /\ parallelity = 1
NextTwice == Next \/ Restart
SpecTwice == InitTwice /\ [][NextTwice]_vars

\* ============================================================== claims
\* Places of cp after the status chain and before the histograms are done.
PastDecide == {"copy", "addCopied", "lockStats", "stats"}
Pictures == { <<"image/jpeg">>, <<"image/png">> }
\* The target object exists, its cache-control is the desired value and its
\* content type is set.
TargetCorrect(t) == ~t.isnil /\ t.cc = newvalue /\ t.ct # NIL
NOutcome(S) == Cardinality({k \in Keys : outcome[k] \in S})
NWritten == NOutcome(Written)
NCap == NOutcome({","})
NErr == NOutcome({"err"})
Min(a, b) == IF a <= b THEN a ELSE b
\* The sum of the entries of a histogram over Statuses, over TypeKeys.
StatusSum(f) ==
  f["E"] + f["."] + f[","] + f["X"] + f["j"] + f["g"] + f["P"] + f["Y"]
TypeSum(f) ==
  f["image/png"] + f["image/jpeg"] + f["application/pdf"] + f["text/html"]
Done == mainpc = "done"

C2_Excluded ==
  \A w \in Workers :
    (name[w] \in exclude /\ fromCT[w] \in Pictures)
      => /\ pc[w] = "decide" =>
              \A c \in 0..(NumKeys + 1) :
                Decision(name[w], fromCT[w], tgt[w], c) = "E"
         /\ pc[w] \in PastDecide =>
              /\ status[w] = "E"
              /\ outcome[name[w]] = "E"
              /\ pc[w] \in {"lockStats", "stats"}
              /\ copyCalls[name[w]] = 0

C2_Witness ==
  \E w \in Workers :
    /\ pc[w] = "lockStats" /\ status[w] = "E" /\ name[w] \in exclude
    /\ fromCT[w] \in Pictures /\ tgt[w].isnil
    /\ copiedObjects > maxObjectsToCopy

\* Every key of the run took the write path or was refused by the cap: none
\* was excluded, already correct or failed.
AllNeedWrite == \A k \in Keys : outcome[k] \in Written \cup {","}

C4_Original == Done => processedObjects = dequeued

\* C4 (amended): when the run is complete every key of the input has been
\* dequeued, and processedObjects is the number of keys dequeued minus the
\* number of keys for which cp returned an error (CapReached keys count).
C4_ProcessedCount ==
  Done => /\ dequeued = NumKeys
          /\ processedObjects = dequeued - NErr

C4_Witness == Done /\ NErr >= 1 /\ processedObjects >= 1

\* C5: in every reachable state processedObjects >= copiedObjects.
C5_ProcessedGeCopied == processedObjects >= copiedObjects

\* C6 (as stated): copiedObjects never exceeds the number of successful
\* CopyObject calls and equals it when the run is complete, with or
\* without --noop.
C6_Original ==
  /\ copiedObjects <= copyOK
  /\ Done => copiedObjects = copyOK

\* C6 (amended): without --noop, copiedObjects is the number of successful
\* CopyObject calls less those whose cp has not yet reached the increment,
\* so it equals that number when the run is complete; with --noop no
\* CopyObject call is issued and copiedObjects counts the keys that took the
\* write path.  Either way it ends as the number of keys with a written
\* status.
C6_CopiedCount ==
  /\ ~noop => copiedObjects + Cardinality({w \in Workers : pc[w] = "addCopied"})
                = copyOK
  /\ noop => copyOK = 0 /\ \A k \in Keys : copyCalls[k] = 0
  /\ copiedObjects = NWritten
  /\ Done => copiedObjects = (IF noop THEN NWritten ELSE copyOK)

C6_Witness ==
  /\ Done /\ ~noop /\ copyOK >= 1
  /\ \E k \in Keys : copyCalls[k] = 1 /\ outcome[k] = "err"

\* C7: when a run in which no cp call failed is complete, the statusStats
\* entries sum to the number of keys, so do the typeStats entries, and
\* processedObjects is that number; each statusStats entry is the number of
\* keys that got that status.
C7_NoLostUpdate ==
  Done =>
    /\ \A s \in Statuses : statusStats[s] = NOutcome({s})
    /\ NErr = 0 =>
         /\ StatusSum(statusStats) = NumKeys
         /\ TypeSum(typeStats) = NumKeys
         /\ processedObjects = NumKeys

C7_Witness == Done /\ NErr = 0 /\ parallelity > 1 /\ processedObjects = NumKeys

C9_ErrorPath ==
  /\ \A k \in Keys :
       outcome[k] = "err" =>
         /\ (\A w \in Workers : name[w] # k) => errfile[k] = 1
         /\ errfile[k] <= 1
         /\ \A i \in 1..Len(names) : names[i] # k
         /\ \A i \in 1..Len(input) : input[i] # k
  /\ processedObjects <= NOutcome(Statuses)
  /\ copiedObjects <= NOutcome(Written)
  /\ StatusSum(statusStats) <= NOutcome(Statuses)
  /\ TypeSum(typeStats) <= NOutcome(Statuses)
  /\ \A w \in Workers : pc[w] = "exited" => closed /\ names = <<>>

\* C10: once the failure file could not be opened, or the failed key could
\* not be written to it, the process has ended.
C10_SinkFailureIsFatal ==
  \A k \in Keys : sinkRes[k] \in {"noopen", "nowrite"} => panic # ""

\* C11: when --target-bucket is missing, main does not get past
\* prepareContextFromCli: no worker is started, no key is read or queued and
\* getExpectedSize (the metrics call) is not reached.
C11_UsageErrorBeforeStart ==
  NoContext =>
    /\ mainpc = "prepare"
    /\ \A w \in Workers : pc[w] = "unused"
    /\ wg = 0
    /\ names = <<>> /\ Len(input) = NumKeys /\ dequeued = 0
    /\ panic = ""

\* C12: under fair scheduling every run reaches Done: the queue is closed,
\* every worker has seen it closed and empty and has exited, and wg.Wait
\* has returned.  (The one exception the specification makes is the failure
\* file that cannot be opened, which ends the process.)
C12_EventuallyDone == <>(mainpc = "done" \/ panic = "OpenFile")

\* The outcome sequences of one worker going through the keys i..NumKeys in
\* order on the store as the run found it, starting with the counter at
\* copied, when every call made to the store returns without a Go error and
\* every write issued succeeds; the target HEAD may still carry an awserr
\* code.  Nothing in it depends on --noop.
RECURSIVE ExpectedOutcomes(_, _)
ExpectedOutcomes(i, copied) ==
  IF i > NumKeys THEN { <<>> }
  ELSE UNION {
    LET ct == objs0[from][i].ct
        t == IF r = "awserr" THEN EmptyOutput
             ELSE IF objs0[target][i].exists THEN Output(objs0[target][i])
             ELSE NilOutput
        d == Decision(i, ct, t, copied)
    IN IF d = "panic" THEN {}
       ELSE IF d = "write"
       THEN { <<WrittenStatus(ct)>> \o rest :
                rest \in ExpectedOutcomes(i + 1, copied + 1) }
       ELSE { <<d>> \o rest : rest \in ExpectedOutcomes(i + 1, copied) }
    : r \in {"ok", "awserr"} }

\* C13: with --noop no CopyObject call is issued and the store stays as the
\* run found it; and a complete one-worker run without failures ends, with
\* or without --noop, with an outcome sequence of ExpectedOutcomes, each
\* statusStats entry the number of keys with that outcome, and
\* processedObjects the number of keys.
C13_NoopSameOutcomes ==
  /\ noop =>
       /\ objs = objs0
       /\ copyOK = 0
       /\ \A k \in Keys : copyCalls[k] = 0
       /\ \A w \in Workers : pc[w] # "copy"
  /\ (Done /\ parallelity = 1 /\ NErr = 0) =>
       /\ outcome \in ExpectedOutcomes(1, 0)
       /\ \A s \in Statuses : statusStats[s] = NOutcome({s})
       /\ TypeSum(typeStats) = NumKeys
       /\ processedObjects = NumKeys

C13_Witness ==
  /\ Done /\ noop /\ parallelity = 1 /\ NErr = 0
  /\ NWritten >= 1 /\ NCap >= 1
  /\ processedObjects = NumKeys /\ objs = objs0

\* cp has left the histograms behind for key k without an error.
Completed(k) ==
  /\ outcome[k] \in Statuses
  /\ \A w \in Workers :
       name[w] = k => pc[w] \in {"addProcessed", "lockStatus", "throttle", "show"}

\* C14: a key has at most one outcome, one of E . , X g j P Y (or the
\* error); a CopyObject call is made at most once and only for a key on the
\* write path, whose outcome is then a written code (or the error); and for
\* every key whose cp got past the histograms exactly one statusStats entry,
\* that of its outcome, and one typeStats entry were incremented.
C14_OneOutcome ==
  /\ \A k \in Keys :
       /\ outcome[k] \in Statuses \cup {"", "err"}
       /\ copyCalls[k] <= 1
       /\ copyCalls[k] = 1 => outcome[k] \in Written \cup {"", "err"}
       /\ outcome[k] \in {"E", ".", ","} => copyCalls[k] = 0
  /\ \A w \in Workers :
       /\ pc[w] \in {"copy", "addCopied"} => status[w] \in Written
       /\ pc[w] \in {"lockStats", "stats"} =>
            status[w] \in Statuses /\ outcome[name[w]] = status[w]
  /\ Running =>
       /\ \A s \in Statuses :
            statusStats[s] =
              Cardinality({k \in Keys : outcome[k] = s /\ Completed(k)})
       /\ TypeSum(typeStats) = Cardinality({k \in Keys : Completed(k)})

C14_Witness ==
  \E k, j \in Keys :
    /\ Completed(k) /\ outcome[k] \in Written /\ copyCalls[k] = 1
    /\ Completed(j) /\ outcome[j] \in {"E", ".", ","} /\ copyCalls[j] = 0
    /\ StatusSum(statusStats) = 2

\* The keys a worker has received: in a worker's hands, or with an outcome.
Taken == {k \in Keys : (\E w \in Workers : name[w] = k) \/ outcome[k] # ""}
Count(q, k) == Cardinality({i \in 1..Len(q) : q[i] = k})

\* C15: every key is in exactly one place (not yet read, in the channel, or
\* received), a received key is held by at most one worker, every receive
\* delivered a key no receive had delivered before (cp is called at most
\* once per key), and when the run is complete every key has been received.
C15_ExactlyOnce ==
  /\ \A k \in Keys :
       /\ Cardinality({w \in Workers : name[w] = k}) <= 1
       /\ Count(input, k) + Count(names, k) + (IF k \in Taken THEN 1 ELSE 0) = 1
  /\ dequeued = Cardinality(Taken)
  /\ Done => dequeued = NumKeys /\ names = <<>> /\ input = <<>>

C15_Witness ==
  /\ Done /\ parallelity > 1 /\ dequeued = NumKeys
  /\ \E k \in Keys : outcome[k] = "err" /\ sinkRes[k] = "written"

\* C16: the channel is closed only when the producer has returned (stdin is
\* read to its end), main waits only after the close, and Done is reached
\* only with the channel closed and empty, wg at zero, each of the
\* parallelity workers exited and no worker holding a key.
C16_DriverOrder ==
  /\ closed <=> mainpc \in {"wait", "done"}
  /\ closed => input = <<>>
  /\ Done =>
       /\ names = <<>>
       /\ wg = 0
       /\ Cardinality({w \in Workers : pc[w] = "exited"}) = parallelity
       /\ \A w \in Workers : pc[w] \in {"exited", "unused"} /\ name[w] = 0

C16_Witness ==
  /\ Done /\ parallelity > 1 /\ closed /\ names = <<>>
  /\ \A w \in Workers : pc[w] = "exited"

\* C17: cp goes on past the target HEAD only when the HEAD succeeded or
\* answered NotFound: a HEAD that failed with any other error never leaves
\* cp with the empty output in target at the status chain or beyond.
C17_TargetHeadErrorFails ==
  \A w \in Workers :
    pc[w] \in {"decide"} \cup PastDecide => tgt[w] # EmptyOutput

\* C18: a key whose source has no content type never ends the process; its
\* status is never Excluded: it is Skipped, CapReached or 'X', and 'X'
\* carries the content type image/png.
C18_NilTypeRunsToOutcome ==
  /\ panic \notin {"IsPicture", "contenttype"}
  /\ \A w \in Workers :
       (pc[w] \in PastDecide /\ fromCT[w] = NIL) =>
         /\ status[w] \in {".", ",", "X"}
         /\ status[w] = "X" => contenttype[w] = <<"image/png">>

\* The step of cp through the status chain for a key that is neither
\* Excluded nor Skipped.
CapChecked(w) ==
  /\ pc[w] = "decide" /\ pc'[w] \in PastDecide
  /\ status'[w] \notin {"E", "."}

\* C19 (as stated): such a key is CapReached exactly when processedObjects
\* exceeds the cap at the time of the check.
C19_Original ==
  [][\A w \in Workers :
       CapChecked(w) =>
         (status'[w] = "," <=> processedObjects > maxObjectsToCopy)]_vars

\* C19 (amended): such a key is CapReached, with no write, exactly when
\* copiedObjects exceeds the cap at the time of the check; otherwise the
\* write path is taken.
C19_CapOnCopied ==
  [][\A w \in Workers :
       CapChecked(w) =>
         /\ status'[w] = "," <=> copiedObjects > maxObjectsToCopy
         /\ status'[w] = "," => pc'[w] = "lockStats"
         /\ status'[w] # "," =>
              status'[w] \in Written /\ pc'[w] \in {"copy", "addCopied"}]_vars

C19_Witness ==
  \E w \in Workers :
    /\ parallelity = 1 /\ pc[w] \in {"copy", "addCopied"}
    /\ processedObjects > maxObjectsToCopy
    /\ copiedObjects <= maxObjectsToCopy

\* What is still to come, in order: the channel, the rest of the page, the
\* keys not yet listed.
ToCome == names \o page \o input
Listed == {k \in Keys : \A i \in 1..Len(input) : input[i] # k}
ProducerReturned == mainpc \in {"listed", "wait", "done"}

\* C20: the keys are enqueued in the order of the listing, page by page and
\* each page completely; a further page is requested only by a step that
\* finds the page fully enqueued and copiedObjects below the cap, and a step
\* that finds copiedObjects at or above the cap after a page ends the
\* enumeration; once it has ended no page is requested and no key is
\* enqueued, and when the run is complete every key that was listed has
\* been processed and no other.
C20_PagesUntilCap ==
  /\ [](/\ \A i, j \in 1..Len(ToCome) : i < j => ToCome[i] < ToCome[j]
        /\ \A k \in Taken : \A i \in 1..Len(ToCome) : k < ToCome[i]
        /\ mainpc # "send" => page = <<>>
        /\ Done => /\ names = <<>>
                   /\ \A k \in Keys : k \in Listed <=> outcome[k] # "")
  /\ [][/\ (mainpc # "page" /\ mainpc' = "page") =>
             /\ mainpc = "send" /\ page = <<>>
             /\ copiedObjects < maxObjectsToCopy
        /\ (mainpc = "send" /\ page = <<>> /\ mainpc' # mainpc
              /\ copiedObjects >= maxObjectsToCopy) => mainpc' = "listed"
        /\ input' # input => mainpc = "page" /\ page = <<>>
        /\ ProducerReturned =>
             /\ ProducerReturned' /\ input' = input /\ page' = page
             /\ names' = names \/ names' = Tail(names)]_vars

C20_Witness ==
  /\ Done /\ input # <<>> /\ maxObjectsToCopy >= 1
  /\ copiedObjects >= maxObjectsToCopy
  /\ \A k \in Listed : outcome[k] \in Written

\* The stamp of the last status line the throttle let pass, 0 before the
\* first.
LastShown == IF shown = <<>> THEN 0 ELSE shown[Len(shown)]
Showing == {w \in Workers : pc[w] = "show"}

\* C21: in every interleaving a worker goes on to print the status summary
\* only by a step that finds its stamp more than everySeconds above
\* lastStatusShown, and that step sets lastStatusShown to the stamp; so any
\* two status lines carry stamps more than everySeconds apart, be they
\* printed one after the other or by two workers printing at once, and
\* lastStatusShown, which is the stamp of the last line, never decreases.
C21_StatusThrottle ==
  /\ [](/\ \A i, j \in 1..Len(shown) :
             i < j => shown[j] - shown[i] > everySeconds
        /\ \A v, w \in Showing :
             v # w => \/ sec[v] - sec[w] > everySeconds
                      \/ sec[w] - sec[v] > everySeconds
        /\ \A w \in Showing : \E i \in 1..Len(shown) : shown[i] = sec[w]
        /\ lastStatusShown = LastShown)
  /\ [][/\ \A w \in Workers :
             (pc[w] # "show" /\ pc'[w] = "show") =>
               /\ pc[w] = "throttle" /\ statusLineMutex = w
               /\ sec[w] - lastStatusShown > everySeconds
               /\ lastStatusShown' = sec[w]
        /\ lastStatusShown' >= lastStatusShown
        /\ lastStatusShown' # lastStatusShown =>
             \E w \in Workers : pc[w] = "throttle" /\ pc'[w] = "show"]_vars

\* A pool of workers has let two status lines pass.
C21_Witness == parallelity > 1 /\ Len(shown) = 2

\* Workers past the cap check on the write path whose write is not yet
\* counted.
Writing == {w \in Workers : pc[w] \in {"copy", "addCopied"}}
\* The CopyObject calls of the run, over all keys.
NCopyCalls ==
  LET sum[k \in 0..NumKeys] == IF k = 0 THEN 0 ELSE sum[k - 1] + copyCalls[k]
  IN sum[NumKeys]

C23_LockDiscipline ==
  \A w \in Workers :
    /\ ~(statsMutex = w /\ statusLineMutex = w)
    /\ statsMutex = w => pc[w] = "stats" /\ panic # "contenttype"
    /\ statusLineMutex = w => pc[w] = "throttle"
    /\ (pc[w] = "lockStats" /\ statsMutex # 0) => pc[statsMutex] = "stats"
    /\ (pc[w] = "lockStatus" /\ statusLineMutex # 0) =>
         pc[statusLineMutex] = "throttle"

====
